---------------------------- MODULE Spec2Model ----------------------------
(***************************************************************************)
(* Model of the BODIK-API MCP adapter.                                     *)
(*                                                                         *)
(*   src/api/index.py      the SSE server: call_tool(name, arguments), a   *)
(*                         dispatcher with one branch per tool and a       *)
(*                         catch-all `except Exception`.                   *)
(*   src/BODIK-API-mcp.py  the stdio server: one coroutine per tool        *)
(*                         (tool_search_get_csv, ...), the upstream client *)
(*                         (_http_get, _http_post) and the extractors      *)
(*                         (_extract_features, _to_records,                *)
(*                         _records_to_csv).  Where the file defines a     *)
(*                         name twice, the later definition is the one     *)
(*                         bound when a handler runs, and is the one       *)
(*                         modelled.                                       *)
(*                                                                         *)
(* JSON values are tagged records.  A Python str is a sequence of tokens   *)
(* (a token is one character, or an indivisible run of characters), so     *)
(* that `q in organ_name` and CSV quoting are computed, not assumed.  A    *)
(* Python dict is a sequence of <<key, value>> pairs in insertion order.   *)
(***************************************************************************)
EXTENDS Integers, Sequences, FiniteSets, TLC

VARIABLES
    pc,         \* "idle" | "awaiting": position of the one running invocation
    cur,        \* the running invocation: [server, name, args, req], or NoCall
    clients,    \* number of HTTP clients/sessions currently open
    sent,       \* upstream requests issued by the running invocation
    last,       \* the most recent completed invocation, or NoCall
    failed500,  \* some completed invocation got HTTP 500 from upstream
    first,      \* a result the caller noted before any failure, or NoCall
    inv,        \* invocations in progress side by side: slot -> its position
                \* and local variables (SpecConcurrent)
    arguments,  \* the caller's argument objects, which invocations are
                \* handed by reference (SpecConcurrent)
    fnArg,      \* input of a pure function under test, or NoArg
    fnRes       \* its result, or NoRes

vars == <<pc, cur, clients, sent, last, failed500, first, inv, arguments, fnArg, fnRes>>
concVars == <<inv, arguments>>
dispVars == <<pc, cur, clients, sent, last, failed500, first, concVars>>
fnVars == <<fnArg, fnRes>>

NoCall == [kind |-> "none"]
NoArg == [fn |-> "none"]
NoRes == [kind |-> "none"]

-----------------------------------------------------------------------------
(* Bounds of the model.                                                    *)

MaxRecords == 2     \* records per CSV input
MaxKeys == 2        \* keys per record / item
MaxCols == 3        \* largest max_cols tried
MaxFeatures == 2    \* features per payload
MaxResults == 2     \* items per upstream result list
MaxItems == 2       \* items per projected list
MaxFields == 2      \* requested fields per projection
MaxOrgs == 2        \* organizations per upstream list
MaxNameLen == 2     \* characters per organization name and per query
MaxArgs == 3        \* keys per argument object of search_dataset
MaxInvocations == 2 \* invocations in progress side by side



-----------------------------------------------------------------------------
(* Sequences.                                                              *)

Range(s) == {s[i] : i \in 1..Len(s)}

RECURSIVE Flatten(_)
Flatten(ss) == IF ss = <<>> THEN <<>> ELSE Head(ss) \o Flatten(Tail(ss))

\* s[:n]
FirstN(s, n) == SubSeq(s, 1, IF Len(s) < n THEN Len(s) ELSE n)

\* All sequences over S of length 0..n.
SeqsUpTo(S, n) == UNION {[1..k -> S] : k \in 0..n}

\* All sequences over S of length 0..n without repeated elements.
InjSeqsUpTo(S, n) ==
    {s \in SeqsUpTo(S, n) : \A i, j \in 1..Len(s) : s[i] = s[j] => i = j}

-----------------------------------------------------------------------------
(* JSON values and Python dicts.                                           *)

Null == [t |-> "null"]
Str(s) == [t |-> "str", v |-> s]
Num(n) == [t |-> "num", v |-> n]
Flt(i, f) == [t |-> "float", v |-> <<i, f>>]
Lst(s) == [t |-> "list", v |-> s]
Dict(ps) == [t |-> "dict", v |-> ps]

IsDict(x) == x.t = "dict"
IsList(x) == x.t = "list"

\* dict.keys(): the keys in insertion order.
Keys(ps) == [i \in 1..Len(ps) |-> ps[i][1]]

\* `k in d`
Has(ps, k) == \E i \in 1..Len(ps) : ps[i][1] = k

\* d.get(k, default)
Get(ps, k, default) ==
    IF Has(ps, k) THEN ps[CHOOSE i \in 1..Len(ps) : ps[i][1] = k][2] ELSE default

\* d.pop(k, None) used for its effect: d without k.
Without(ps, k) == SelectSeq(ps, LAMBDA p : p[1] # k)

-----------------------------------------------------------------------------
(* Data of the examples.                                                   *)

\* The properties {"name": "Station A", "lat": 33.5}.
StationA == <<<<"name", Str(<<"Station A">>)>>, <<"lat", Flt(33, 5)>>>>

\* One token per character: 福 岡 市 and 北 九 州 市.
Fukuoka == <<"fuku", "oka", "shi">>
Kitakyushu == <<"kita", "kyu", "shu", "shi">>

\* An entry of the upstream organization list.
Org(name) == Dict(<<<<"organ_code", Str(<<"40">>)>>, <<"organ_name", Str(name)>>>>)

-----------------------------------------------------------------------------
(* Text.  str(v) as the csv module applies it to a cell value.             *)

Comma == ","
Quote == "\""
CR == "\r"
LF == "\n"

\* csv.writer's conversion of a field value: None is written as the empty
\* string, a str as it is, a number as its decimal text.
CsvFieldText(v) ==
    CASE v.t = "null" -> <<>>
      [] v.t = "str" -> v.v
      [] v.t = "num" -> <<ToString(v.v)>>
      [] v.t = "float" -> <<ToString(v.v[1]), ".", ToString(v.v[2])>>

\* csv.writer, dialect excel, QUOTE_MINIMAL: a field is quoted when it holds
\* the delimiter, the quote character or a line break; quotes are doubled.
NeedsQuote(c) == \E i \in 1..Len(c) : c[i] \in {Comma, Quote, CR, LF}

RECURSIVE DoubleQuotes(_)
DoubleQuotes(c) ==
    IF c = <<>> THEN <<>>
    ELSE (IF Head(c) = Quote THEN <<Quote, Quote>> ELSE <<Head(c)>>)
         \o DoubleQuotes(Tail(c))

CsvField(c) ==
    IF NeedsQuote(c) THEN <<Quote>> \o DoubleQuotes(c) \o <<Quote>> ELSE c

RECURSIVE JoinFields(_)
JoinFields(fs) ==
    IF fs = <<>> THEN <<>>
    ELSE IF Len(fs) = 1 THEN Head(fs)
    ELSE Head(fs) \o <<Comma>> \o JoinFields(Tail(fs))

\* csv.writer.writerow: the fields joined by "," and ended by "\r\n"; a row
\* of one empty field is written as "" so that it is not a blank line.
CsvWriteRow(cells) ==
    (IF Len(cells) = 1 /\ cells[1] = <<>>
     THEN <<Quote, Quote>>
     ELSE JoinFields([i \in 1..Len(cells) |-> CsvField(cells[i])]))
    \o <<CR, LF>>

\* csv.DictWriter._dict_to_list with extrasaction="ignore", restval="":
\* one cell per header, the record's value or "" when the key is absent;
\* keys of the record that are no header are not looked at.
DictToCells(r, headers) ==
    [j \in 1..Len(headers) |->
        IF Has(r, headers[j]) THEN CsvFieldText(Get(r, headers[j], Null)) ELSE <<>>]

-----------------------------------------------------------------------------
(* _records_to_csv (src/BODIK-API-mcp.py:270-290).                         *)

\* Lines 277-282: the inner loop over one record's keys.  The length test
\* follows the append, so it is first made when one key has been taken.
RECURSIVE HeaderInner(_, _, _)
HeaderInner(keys, headers, max_cols) ==
    IF keys = <<>> THEN headers
    ELSE LET k == Head(keys)
             h2 == IF k \in Range(headers) THEN headers ELSE Append(headers, k)
         IN  IF Len(h2) >= max_cols THEN h2
             ELSE HeaderInner(Tail(keys), h2, max_cols)

\* Lines 276-284: the outer loop over the records.
RECURSIVE HeaderOuter(_, _, _)
HeaderOuter(records, headers, max_cols) ==
    IF records = <<>> THEN headers
    ELSE LET h2 == HeaderInner(Keys(Head(records)), headers, max_cols)
         IN  IF Len(h2) >= max_cols THEN h2
             ELSE HeaderOuter(Tail(records), h2, max_cols)

CsvHeaders(records, max_cols) == HeaderOuter(records, <<>>, max_cols)

\* The text returned: "" for no records, else the header row and one row
\* per record.  records is a sequence of dict bodies.
records_to_csv(records, max_cols) ==
    IF records = <<>> THEN <<>>
    ELSE LET headers == CsvHeaders(records, max_cols)
         IN  CsvWriteRow([j \in 1..Len(headers) |-> <<headers[j]>>])
             \o Flatten([i \in 1..Len(records) |->
                            CsvWriteRow(DictToCells(records[i], headers))])

\* The default of the max_cols parameter.
DefaultMaxCols == 60

-----------------------------------------------------------------------------
(* Results of Python code: a value returned, or an exception raised.       *)

Ok(v) == [kind |-> "ok", v |-> v]
Raise(exc, msg) == [kind |-> "raise", exc |-> exc, msg |-> msg]

\* Text of a content block: json.dumps(value, indent=2, ensure_ascii=False)
\* followed by literal text, or literal text alone (tokens).
JsonText(v, tail) == [t |-> "json", v |-> v, tail |-> tail]
PlainText(toks) == [t |-> "plain", v |-> <<>>, tail |-> toks]

\* mcp.types.TextContent(type="text", text=..., [isError=True]).
TextContent(text, isError) == [type |-> "text", text |-> text, isError |-> isError]

-----------------------------------------------------------------------------
(* The extractors (src/BODIK-API-mcp.py:255-266).                          *)

\* _extract_features: data.get("resultsets", {}).get("features", []) inside
\* try/except Exception.  .get on a value that is no dict raises
\* AttributeError, which is caught; whatever "features" holds is returned
\* as it is.
extract_features(data) ==
    IF ~IsDict(data) THEN Lst(<<>>)
    ELSE LET rs == Get(data.v, "resultsets", Dict(<<>>))
         IN  IF ~IsDict(rs) THEN Lst(<<>>)
             ELSE Get(rs.v, "features", Lst(<<>>))

\* What `for f in features` iterates over, or the TypeError it raises.
Iterate(x) ==
    CASE x.t = "list" -> Ok(x.v)
      [] x.t = "dict" -> Ok([i \in 1..Len(x.v) |-> Str(<<x.v[i][1]>>)])
      [] x.t = "str" -> Ok([i \in 1..Len(x.v) |-> Str(<<x.v[i]>>)])
      [] OTHER -> Raise("TypeError", <<"object is not iterable">>)

\* _to_records: [f.get("properties", {}) for f in features].
to_records(features) ==
    LET it == Iterate(features)
    IN  IF it.kind = "raise" THEN it
        ELSE IF \E i \in 1..Len(it.v) : ~IsDict(it.v[i])
        THEN Raise("AttributeError", <<"object has no attribute 'get'">>)
        ELSE Ok([i \in 1..Len(it.v) |-> Get(it.v[i].v, "properties", Dict(<<>>))])

\* tool_search_get_records after _http_get returned data (lines 335-337).
search_get_records_body(data) ==
    LET recs == to_records(extract_features(data))
    IN  IF recs.kind = "raise" THEN recs
        ELSE Ok(TextContent(JsonText(Dict(<<<<"records", Lst(recs.v)>>>>), <<>>), FALSE))

\* tool_search_get_csv after _http_get returned data (lines 343-346);
\* _records_to_csv calls r.keys() on every record it looks at.
search_get_csv_body(data) ==
    LET recs == to_records(extract_features(data))
    IN  IF recs.kind = "raise" THEN recs
        ELSE IF \E i \in 1..Len(recs.v) : ~IsDict(recs.v[i])
        THEN Raise("AttributeError", <<"object has no attribute 'keys'">>)
        ELSE Ok(TextContent(
                 PlainText(records_to_csv([i \in 1..Len(recs.v) |-> recs.v[i].v],
                                          DefaultMaxCols)), FALSE))

-----------------------------------------------------------------------------
(* Python operators used by call_tool (src/api/index.py).                  *)

\* str.__contains__: needle occurs in hay as a run of consecutive characters.
RECURSIVE StartsWith(_, _)
StartsWith(hay, needle) ==
    IF needle = <<>> THEN TRUE
    ELSE IF hay = <<>> THEN FALSE
    ELSE Head(hay) = Head(needle) /\ StartsWith(Tail(hay), Tail(needle))

\* A variant that compares without regard to case, as str.lower() on both
\* sides would.
LowerCase(c) == IF c = "A" THEN "a" ELSE c

StrContains_caseless(hay, needle) ==
    \E i \in 1..(Len(hay) + 1) :
        /\ i + Len(needle) - 1 <= Len(hay)
        /\ \A k \in 1..Len(needle) : LowerCase(hay[i + k - 1]) = LowerCase(needle[k])

RECURSIVE StrContains(_, _)
StrContains(hay, needle) ==
    IF StartsWith(hay, needle) THEN TRUE
    ELSE IF hay = <<>> THEN FALSE
    ELSE StrContains(Tail(hay), needle)

\* type(x).__name__
PyTypeName(x) ==
    CASE x.t = "null" -> "NoneType"
      [] x.t = "num" -> "int"
      [] OTHER -> x.t

\* `x in c`: substring for a str, membership for a list, key test for a
\* dict, TypeError for a container that is not iterable or a left operand
\* of `in <string>` that is no str.
PyIn(x, c) ==
    CASE c.t = "str" ->
            IF x.t = "str" THEN Ok(StrContains(c.v, x.v))
            ELSE Raise("TypeError",
                       <<"'in <string>' requires string as left operand, not ", PyTypeName(x)>>)
      [] c.t = "list" -> Ok(\E i \in 1..Len(c.v) : c.v[i] = x)
      [] c.t = "dict" -> Ok(\E i \in 1..Len(c.v) : Str(<<c.v[i][1]>>) = x)
      [] OTHER -> Raise("TypeError", <<"argument of type '", PyTypeName(c), "' is not iterable">>)

\* len(x)
PyLen(x) ==
    IF x.t \in {"list", "dict", "str"} THEN Ok(Len(x.v))
    ELSE Raise("TypeError", <<"object of type '", PyTypeName(x), "' has no len()">>)

\* The first exception among a sequence of results, if any.
FirstRaise(rs) ==
    IF \E i \in 1..Len(rs) : rs[i].kind = "raise"
    THEN rs[CHOOSE i \in 1..Len(rs) :
               rs[i].kind = "raise" /\ \A j \in 1..(i - 1) : rs[j].kind # "raise"]
    ELSE Ok(<<>>)

NoGet == Raise("AttributeError", <<"object has no attribute 'get'">>)

-----------------------------------------------------------------------------
(* get_municipality_code after the response is decoded                     *)
(* (src/api/index.py:139-140).                                             *)

\* `q in o.get("organ_name")` for one entry.
OrgMatches(q, o) ==
    IF ~IsDict(o) THEN NoGet ELSE PyIn(q, Get(o.v, "organ_name", Null))

municipality_body(q, all_orgs) ==
    LET it == Iterate(all_orgs) IN
    IF it.kind = "raise" THEN it
    ELSE LET tests == [i \in 1..Len(it.v) |-> OrgMatches(q, it.v[i])]
             bad == FirstRaise(tests)
         IN  IF bad.kind = "raise" THEN bad
             ELSE LET idx == SelectSeq([i \in 1..Len(it.v) |-> i], LAMBDA i : tests[i].v)
                      matched == [n \in 1..Len(idx) |-> it.v[idx[n]]]
                  IN  Ok(<<TextContent(JsonText(Lst(matched), <<>>), FALSE)>>)

-----------------------------------------------------------------------------
(* search_dataset after the response is decoded (src/api/index.py:182-216) *)

\* A variant that always counts the items and never reads `totalCount`.
normalize_counting_items(data) ==
    IF IsList(data) THEN Ok(<<data, Num(Len(data.v))>>)
    ELSE IF IsDict(data) THEN
        LET results == Get(data.v, "result",
                           IF ~Has(data.v, "apiname") THEN Lst(<<data>>) ELSE Lst(<<>>))
            n == PyLen(results)
        IN  IF n.kind = "raise" THEN n ELSE Ok(<<results, Num(n.v)>>)
    ELSE Ok(<<Lst(<<>>), Num(0)>>)

\* Lines 183-192: (results, total_count).  The default of
\* data.get("totalCount", len(results)) is evaluated whether or not the key
\* is present.
normalize(data) ==
    IF IsList(data) THEN Ok(<<data, Num(Len(data.v))>>)
    ELSE IF IsDict(data) THEN
        LET results == Get(data.v, "result",
                           IF ~Has(data.v, "apiname") THEN Lst(<<data>>) ELSE Lst(<<>>))
            n == PyLen(results)
        IN  IF n.kind = "raise" THEN n
            ELSE Ok(<<results, Get(data.v, "totalCount", Num(n.v))>>)
    ELSE Ok(<<Lst(<<>>), Num(0)>>)

\* Line 198: {f: item.get(f) for f in selected_fields if f in item}, the
\* keys in the order of their first occurrence in selected_fields.
RECURSIVE FilteredItem(_, _, _)
FilteredItem(item, fields, acc) ==
    IF fields = <<>> THEN acc
    ELSE LET f == Head(fields)
         IN  FilteredItem(item, Tail(fields),
                IF Has(item, f) /\ ~Has(acc, f)
                THEN Append(acc, <<f, Get(item, f, Null)>>) ELSE acc)

\* A variant without the pass-through of lines 202-204: the filtered item
\* is appended even when it is empty.
ProjectItem_without_passthrough(item, fields) ==
    IF IsDict(item) THEN Ok(Dict(FilteredItem(item.v, fields, <<>>)))
    ELSE Ok(item)

\* Lines 198-204 for one item: the filtered item when it is not empty, the
\* item itself otherwise.  `f in item` on an item that is no dict is the
\* test of PyIn; a hit then fails in item.get.
ProjectItem(item, fields) ==
    IF IsDict(item) THEN
        LET filtered == FilteredItem(item.v, fields, <<>>)
        IN  Ok(IF filtered # <<>> THEN Dict(filtered) ELSE item)
    ELSE LET tests == [i \in 1..Len(fields) |-> PyIn(Str(<<fields[i]>>), item)]
             bad == FirstRaise(tests)
         IN  IF bad.kind = "raise" THEN bad
             ELSE IF \E i \in 1..Len(tests) : tests[i].v THEN NoGet
             ELSE Ok(item)

\* Lines 195-204: filtered_results.
project(results, fields) ==
    LET it == Iterate(results) IN
    IF it.kind = "raise" THEN it
    ELSE LET outs == [i \in 1..Len(it.v) |-> ProjectItem(it.v[i], fields)]
             bad == FirstRaise(outs)
         IN  IF bad.kind = "raise" THEN bad
             ELSE Ok(Lst([i \in 1..Len(outs) |-> outs[i].v]))

-----------------------------------------------------------------------------
(* Upstream requests and responses.                                        *)

BaseUrl == "https://wapi.bodik.jp"

Request(method, url, params) ==
    [kind |-> "request", method |-> method, url |-> url, params |-> params]

\* An HTTP response: its status and its body, the body being the text and
\* what json decoding makes of it (text stands for the characters of the
\* body; a JSON body's characters are not spelled out).
JsonBody(data) == [json |-> TRUE, data |-> data, text |-> <<"{json}">>]
TextBody(text) == [json |-> FALSE, data |-> Null, text |-> text]
Http(status, body) == [kind |-> "http", status |-> status, body |-> body]

\* No response: the request timed out or the transport failed.
Timeout == [kind |-> "timeout"]

NoResp == [kind |-> "none"]

\* str(v) as an f-string formats it.
Fmt(v) ==
    CASE v.t = "null" -> <<"None">>
      [] v.t = "str" -> v.v
      [] v.t = "num" -> <<ToString(v.v)>>
      [] v.t = "float" -> <<ToString(v.v[1]), ".", ToString(v.v[2])>>
      [] OTHER -> <<"<repr>">>

-----------------------------------------------------------------------------
(* call_tool (src/api/index.py:119-222).                                   *)

\* The names list_tools registers (lines 35-116).
ToolNames ==
    {"get_api_list", "get_municipality_code", "get_all_organizations",
     "get_dataset_config", "get_organization", "search_dataset"}

\* Lines 221-222: except Exception as e -> one text block, isError=True.
ErrorEnvelope(e) == <<TextContent(PlainText(<<"Error: ">> \o e.msg), TRUE)>>

\* Line 219, with a variant whose message leaves the name out.
UnknownTool_unnamed(name) == Raise("ValueError", <<"Unknown tool">>)

UnknownTool(name) == Raise("ValueError", <<"Unknown tool: ", name>>)

\* Line 172: the fields used when the caller gives none.
DefaultSelectedFields ==
    Lst(<<Str(<<"name">>), Str(<<"address">>), Str(<<"telephoneNumber">>),
          Str(<<"lat">>), Str(<<"lon">>)>>)

\* Line 175.
DefaultMaxResults == 10

\* A variant of the query below that pops apiname only and forwards fields.
SearchParams_forwarding_fields(args) ==
    LET a1 == Without(args, "apiname")
        a2 == IF Has(a1, "maxResults") THEN a1
              ELSE Append(a1, <<"maxResults", Num(DefaultMaxResults)>>)
    IN  SelectSeq(a2, LAMBDA kv : kv[2] # Null)

\* Lines 168-177: the query of search_dataset from the caller's arguments
\* (a copy: the caller's dict is not changed).
SearchParams(args) ==
    LET a1 == Without(Without(args, "apiname"), "fields")
        a2 == IF Has(a1, "maxResults") THEN a1
              ELSE Append(a1, <<"maxResults", Num(DefaultMaxResults)>>)
    IN  SelectSeq(a2, LAMBDA kv : kv[2] # Null)

\* call_tool from its entry to its first await: the request it issues, or
\* the exception raised before any request.
CallToolStart(name, args) ==
    CASE name = "get_api_list" -> Request("GET", <<BaseUrl, "/api/list">>, <<>>)
      [] name \in {"get_municipality_code", "get_all_organizations"} ->
            Request("GET", <<BaseUrl, "/organization">>, <<>>)
      [] name = "get_dataset_config" ->
            Request("GET", <<BaseUrl, "/config/">> \o Fmt(Get(args, "apiname", Null)), <<>>)
      [] name = "get_organization" ->
            Request("GET", <<BaseUrl, "/">> \o Fmt(Get(args, "apiname", Null))
                           \o <<"/organization">>, <<>>)
      [] name = "search_dataset" ->
            IF ~Has(args, "apiname") THEN Raise("KeyError", <<"'", "apiname", "'">>)
            ELSE Request("GET", <<BaseUrl, "/">> \o Fmt(Get(args, "apiname", Null)),
                         SearchParams(args))
      [] OTHER -> UnknownTool(name)

\* httpx: `await client.get(...)`, resp.raise_for_status(), resp.json().
\* The decoded body, or the exception: a timeout, a status that is not
\* 2xx (the message names the status code), a body that is not JSON.
HttpxError(req, resp) ==
    Raise("HTTPStatusError",
          <<IF resp.status \div 100 = 5 THEN "Server error" ELSE "Client error",
            " '", ToString(resp.status), "' for url '">> \o req.url \o <<"'">>)

HttpxGetJson(req, resp) ==
    IF resp.kind = "timeout" THEN Raise("ReadTimeout", <<>>)
    ELSE IF resp.status \div 100 # 2 THEN HttpxError(req, resp)
    ELSE IF ~resp.body.json
    THEN Raise("JSONDecodeError", <<"Expecting value: line 1 column 1 (char 0)">>)
    ELSE Ok(resp.body.data)

\* Lines 127-131: the text of get_api_list.
ApiListLine(i) ==
    IF ~IsDict(i) THEN NoGet
    ELSE Ok(<<"- ">> \o Fmt(Get(i.v, "apiname", Null)) \o <<": ">>
            \o Fmt(Get(i.v, "description", Null)) \o <<LF>>)

api_list_body(data) ==
    LET lines == IF IsList(data) THEN [n \in 1..Len(data.v) |-> ApiListLine(data.v[n])]
                 ELSE <<>>
        bad == FirstRaise(lines)
    IN  IF bad.kind = "raise" THEN bad
        ELSE Ok(<<TextContent(
                    PlainText(<<"API list:", LF, LF>>
                              \o Flatten([n \in 1..Len(lines) |-> lines[n].v])
                              \o <<LF, "--- next steps ---">>), FALSE)>>)

\* Lines 154-159: fields and mapping removed from a dict, then dumped.
dataset_config_body(data) ==
    Ok(<<TextContent(
           JsonText(IF IsDict(data)
                    THEN Dict(Without(Without(data.v, "fields"), "mapping"))
                    ELSE data, <<>>), FALSE)>>)

PassThrough(data) == Ok(<<TextContent(JsonText(data, <<>>), FALSE)>>)

\* The field names of selected_fields (a list of strings).
FieldKeys(fields) == [i \in 1..Len(fields.v) |-> fields.v[i].v[1]]

Hint == <<LF, LF, "(hint: check the field names with 'get_dataset_config' and pass 'fields')">>

\* Lines 182-216.
search_dataset_body(args, data) ==
    LET norm == normalize(data) IN
    IF norm.kind = "raise" THEN norm
    ELSE LET selected == Get(args, "fields", DefaultSelectedFields)
             filtered == project(norm.v[1], FieldKeys(selected))
         IN  IF filtered.kind = "raise" THEN filtered
             ELSE Ok(<<TextContent(
                         JsonText(Dict(<<<<"totalCount", norm.v[2]>>,
                                        <<"result", filtered.v>>>>),
                                  IF Has(args, "fields") THEN <<>> ELSE Hint),
                         FALSE)>>)

\* The branch of call_tool after its await, before the except clause.
CallToolBody(name, args, data) ==
    CASE name = "get_api_list" -> api_list_body(data)
      [] name = "get_municipality_code" -> municipality_body(Get(args, "q", Null), data)
      [] name = "get_all_organizations" -> PassThrough(data)
      [] name = "get_dataset_config" -> dataset_config_body(data)
      [] name = "get_organization" -> PassThrough(data)
      [] name = "search_dataset" -> search_dataset_body(args, data)

\* Lines 122, 221-222: whatever the try block raises becomes the error
\* envelope; call_tool returns in every case.
Caught(r) == IF r.kind = "raise" THEN Ok(ErrorEnvelope(r)) ELSE r

CallToolResume(name, args, req, resp) ==
    LET got == HttpxGetJson(req, resp)
    IN  Caught(IF got.kind = "raise" THEN got ELSE CallToolBody(name, args, got.v))

-----------------------------------------------------------------------------
(* The stdio server's handlers (src/BODIK-API-mcp.py:294-364).             *)

\* Lines 209-226.
APINAME_LIST ==
    <<"aed", "care_service", "hospital", "cultural_property", "tourism", "event",
      "public_wireless_lan", "public_toilet", "public_facility", "fire_hydrant",
      "evacuation_space", "population", "preschool", "food_business_license",
      "school_lunch", "school_districts">>

\* Lines 356-364: the names add_tool registers handlers under.
HandlerNames ==
    {"list_apinames", "list_organizations", "list_all_organizations", "get_config",
     "search_get", "search_post", "search_get_records", "search_get_csv",
     "search_get_geojson"}

\* A handler from its entry to its await: the request _http_get/_http_post
\* issues (params or {} / body or {}), or the value list_apinames returns.
HandlerStart(name, apiname) ==
    CASE name = "list_apinames" ->
            Ok(TextContent(
                 JsonText(Dict(<<<<"apiname_list",
                                   Lst([i \in 1..Len(APINAME_LIST) |-> Str(<<APINAME_LIST[i]>>)])>>>>),
                          <<>>), FALSE))
      [] name = "list_organizations" ->
            Request("GET", <<BaseUrl, "/">> \o apiname \o <<"/organization">>, <<>>)
      [] name = "list_all_organizations" -> Request("GET", <<BaseUrl, "/organization">>, <<>>)
      [] name = "get_config" -> Request("GET", <<BaseUrl, "/config/">> \o apiname, <<>>)
      [] name = "search_post" -> Request("POST", <<BaseUrl, "/api/">> \o apiname, <<>>)
      [] OTHER -> Request("GET", <<BaseUrl, "/">> \o apiname, <<>>)

\* text[:500] of lines 235 and 248.
ExcerptLen == 500

\* _http_get / _http_post (lines 229-252): RuntimeError unless the status
\* is 200; the decoded body, or {"raw": text} when it is not JSON.
HttpGetOrPost(req, resp) ==
    IF resp.kind = "timeout" THEN Raise("TimeoutError", <<>>)
    ELSE IF resp.status # 200
    THEN Raise("RuntimeError",
               <<req.method, " ">> \o req.url \o <<" -> ", ToString(resp.status), ": ">>
               \o FirstN(resp.body.text, ExcerptLen))
    ELSE IF resp.body.json THEN Ok(resp.body.data)
    ELSE Ok(Dict(<<<<"raw", Str(resp.body.text)>>>>))

\* tool_search_get_geojson, lines 352-353.
search_get_geojson_body(data) ==
    IF ~IsDict(data) THEN NoGet
    ELSE Ok(TextContent(JsonText(Get(data.v, "resultsets", Dict(<<>>)), <<>>), FALSE))

HandlerBody(name, data) ==
    CASE name = "search_get_records" -> search_get_records_body(data)
      [] name = "search_get_csv" -> search_get_csv_body(data)
      [] name = "search_get_geojson" -> search_get_geojson_body(data)
      [] OTHER -> Ok(TextContent(JsonText(data, <<>>), FALSE))

\* A handler after its await.  No handler has a try block (nor has anything
\* else in the file): what _http_get or an extractor raises leaves the
\* handler as it is.
HandlerResume(name, req, resp) ==
    LET got == HttpGetOrPost(req, resp)
    IN  IF got.kind = "raise" THEN got ELSE HandlerBody(name, got.v)

-----------------------------------------------------------------------------
(* The dispatcher's variables at rest, and a pure function's at rest.      *)

\* The invocations that may be in progress side by side, none begun.
Slots == 1..MaxInvocations
IdleSlot == [pc |-> "idle"]

\* The argument objects the caller holds and hands to invocations: the
\* same object may be handed to several.
CallerArguments ==
    <<  <<<<"apiname", Str(<<"aed">>)>>, <<"fields", Lst(<<Str(<<"name">>)>>)>>>>,
        <<<<"q", Str(Fukuoka)>>>>  >>

DispIdle ==
    /\ pc = "idle"
    /\ cur = NoCall
    /\ clients = 0
    /\ sent = 0
    /\ last = NoCall
    /\ failed500 = FALSE
    /\ first = NoCall
    /\ inv = [s \in Slots |-> IdleSlot]
    /\ arguments = CallerArguments

FnIdle == fnArg = NoArg /\ fnRes = NoRes

-----------------------------------------------------------------------------
(* The servers as state machines.  An invocation runs from its entry to    *)
(* its await in one step and from the upstream's answer to its end in a    *)
(* second; a server runs one invocation at a time.                         *)

Call(server, name, args) == [server |-> server, name |-> name, args |-> args]

Running(c, req) == [kind |-> "call", call |-> c, req |-> req]

\* A completed invocation: what it was, what upstream answered, how it
\* ended (Ok(value returned) or the exception that left it) and how many
\* upstream requests it issued.
Done(c, resp, outcome, nreq) ==
    [kind |-> "done", call |-> c, resp |-> resp, outcome |-> outcome, nreq |-> nreq]

Got500(resp) == resp.kind = "http" /\ resp.status = 500

\* Leaving an `async with` block that holds a client or session: __aexit__
\* closes it whether the block returns or raises (src/api/index.py:121,
\* src/BODIK-API-mcp.py:300, 306, 312, 321, 327, 333, 341, 350).  The
\* variant closes it only when the block returns.
AsyncWithExit_on_return_only(open, outcome) ==
    IF outcome.kind = "raise" THEN open ELSE open - 1

AsyncWithExit(open, outcome) == open - 1

\* call_tool(name, arguments) up to `await client.get(...)`; the client of
\* line 121 is open while the invocation is suspended.
CallTool(name, args) ==
    /\ pc = "idle"
    /\ LET st == CallToolStart(name, args)
           c == Call("sse", name, args)
       IN  IF st.kind = "request"
           THEN /\ pc' = "awaiting"
                /\ cur' = Running(c, st)
                /\ clients' = clients + 1
                /\ sent' = 1
                /\ UNCHANGED last
           ELSE /\ pc' = "idle"
                /\ cur' = NoCall
                /\ clients' = AsyncWithExit(clients + 1, Caught(st))
                /\ sent' = 0
                /\ last' = Done(c, NoResp, Caught(st), 0)
    /\ UNCHANGED <<failed500, first, concVars, fnVars>>

\* call_tool from the upstream's answer to its return; the client is
\* closed on the way out.
CallToolReturn(resp) ==
    /\ pc = "awaiting"
    /\ cur.call.server = "sse"
    /\ last' = Done(cur.call, resp,
                    CallToolResume(cur.call.name, cur.call.args, cur.req, resp), sent)
    /\ pc' = "idle"
    /\ cur' = NoCall
    /\ clients' = AsyncWithExit(clients, last'.outcome)
    /\ sent' = 0
    /\ failed500' = (failed500 \/ Got500(resp))
    /\ UNCHANGED <<first, concVars, fnVars>>

\* A handler of the stdio server, called with apiname, up to its await in
\* _http_get/_http_post; its ClientSession is open while it is suspended.
\* tool_list_apinames opens none and returns at once.
RunHandler(name, args) ==
    /\ pc = "idle"
    /\ LET st == HandlerStart(name, Get(args, "apiname", Null).v)
           c == Call("stdio", name, args)
       IN  IF st.kind = "request"
           THEN /\ pc' = "awaiting"
                /\ cur' = Running(c, st)
                /\ clients' = clients + 1
                /\ sent' = 1
                /\ UNCHANGED last
           ELSE /\ pc' = "idle"
                /\ cur' = NoCall
                /\ clients' = clients
                /\ sent' = 0
                /\ last' = Done(c, NoResp, st, 0)
    /\ UNCHANGED <<failed500, first, concVars, fnVars>>

\* The handler from the upstream's answer to its end: a return, or an
\* exception that leaves the handler; the session is closed either way.
HandlerReturn(resp) ==
    /\ pc = "awaiting"
    /\ cur.call.server = "stdio"
    /\ last' = Done(cur.call, resp, HandlerResume(cur.call.name, cur.req, resp), sent)
    /\ pc' = "idle"
    /\ cur' = NoCall
    /\ clients' = AsyncWithExit(clients, last'.outcome)
    /\ sent' = 0
    /\ failed500' = (failed500 \/ Got500(resp))
    /\ UNCHANGED <<first, concVars, fnVars>>

\* The caller keeps a result it got while no call had failed, to compare
\* later results with.
NoteResult ==
    /\ pc = "idle"
    /\ first = NoCall
    /\ last # NoCall
    /\ ~failed500
    /\ first' = last
    /\ UNCHANGED <<pc, cur, clients, sent, last, failed500, concVars, fnVars>>

-----------------------------------------------------------------------------
(* Spec: both servers, every tool name, argument objects with and without  *)
(* the required arguments, upstream answers of every kind.                 *)

Aed == Str(<<"aed">>)

OrgsPayload == Lst(<<Org(Fukuoka), Org(Kitakyushu)>>)
FeaturesPayload ==
    Dict(<<<<"resultsets",
             Dict(<<<<"features", Lst(<<Dict(<<<<"properties", Dict(StationA)>>>>)>>)>>>>)>>>>)
NullFeaturesPayload == Dict(<<<<"resultsets", Dict(<<<<"features", Null>>>>)>>>>)
ResultPayload == Dict(<<<<"result", Lst(<<Dict(StationA)>>)>>, <<"totalCount", Num(5)>>>>)
ConfigPayload ==
    Dict(<<<<"apiname", Aed>>, <<"fields", Lst(<<Str(<<"name">>)>>)>>,
           <<"mapping", Dict(<<>>)>>>>)
ApiListPayload == Lst(<<Dict(<<<<"apiname", Aed>>, <<"description", Str(<<"AED">>)>>>>)>>)

ResponsePool ==
    {Http(200, JsonBody(d)) :
        d \in {OrgsPayload, FeaturesPayload, NullFeaturesPayload, ResultPayload,
               ConfigPayload, ApiListPayload}}
    \cup {Http(201, JsonBody(ResultPayload)),
          Http(200, TextBody(<<"<html>">>)),
          Http(404, TextBody(<<"not found">>)),
          Http(500, TextBody(<<"boom">>)),
          Timeout}

\* Names call_tool is asked for: the registered ones, one that only the
\* stdio server registers, one that nobody registers.
SseNamePool == ToolNames \cup {"search_get_csv", "no_such_tool"}

SseArgsPool ==
    {<<>>,
     <<<<"apiname", Aed>>>>,
     <<<<"q", Str(Fukuoka)>>>>,
     <<<<"apiname", Num(7)>>, <<"q", Num(7)>>>>,
     <<<<"apiname", Aed>>, <<"fields", Lst(<<Str(<<"name">>)>>)>>, <<"name", Null>>>>}

HandlerArgsPool == {<<<<"apiname", Aed>>>>}

Init == DispIdle /\ FnIdle

Next ==
    \/ \E name \in SseNamePool, args \in SseArgsPool : CallTool(name, args)
    \/ \E resp \in ResponsePool : CallToolReturn(resp)
    \/ \E name \in HandlerNames, args \in HandlerArgsPool : RunHandler(name, args)
    \/ \E resp \in ResponsePool : HandlerReturn(resp)

Spec == Init /\ [][Next]_vars

-----------------------------------------------------------------------------
(* SpecServe: a server process over several invocations of the search      *)
(* tools and two others, with a caller that compares results.              *)

ServeSseNamePool == {"search_dataset", "get_all_organizations", "no_such_tool"}
ServeHandlerNamePool == {"search_get", "search_post", "search_get_records",
                         "search_get_csv", "search_get_geojson"}
ServeResponsePool ==
    {Http(200, JsonBody(FeaturesPayload)), Http(200, JsonBody(ResultPayload)),
     Http(500, TextBody(<<"boom">>)), Timeout}

NextServe ==
    \/ \E name \in ServeSseNamePool : CallTool(name, <<<<"apiname", Aed>>>>)
    \/ \E resp \in ServeResponsePool : CallToolReturn(resp)
    \/ \E name \in ServeHandlerNamePool : RunHandler(name, <<<<"apiname", Aed>>>>)
    \/ \E resp \in ServeResponsePool : HandlerReturn(resp)
    \/ NoteResult

SpecServe == Init /\ [][NextServe]_vars

-----------------------------------------------------------------------------
(* SpecCsv: _records_to_csv applied to bounded record lists.               *)

CsvKeyPool == {"name", "lat", "tel"}
CsvValuePool == {Str(<<"Station A">>), Flt(33, 5), Str(<<"1", Comma, "2">>), Null}

\* A record: up to MaxKeys distinct keys in some order, each with a value.
CsvRecordPool ==
    UNION {{[i \in 1..Len(ks) |-> <<ks[i], vs[i]>>] : vs \in [1..Len(ks) -> CsvValuePool]}
           : ks \in InjSeqsUpTo(CsvKeyPool, MaxKeys)}

CsvInputs ==
    [fn : {"records_to_csv"},
     records : SeqsUpTo(CsvRecordPool, MaxRecords),
     max_cols : (0..MaxCols) \cup {DefaultMaxCols}]

InitCsv == DispIdle /\ fnArg \in CsvInputs /\ fnRes = NoRes

ApplyCsv ==
    /\ fnArg.fn = "records_to_csv"
    /\ fnRes = NoRes
    /\ fnRes' = [kind |-> "text", text |-> records_to_csv(fnArg.records, fnArg.max_cols)]
    /\ UNCHANGED <<fnArg, dispVars>>

NextCsv == ApplyCsv

SpecCsv == InitCsv /\ [][NextCsv]_vars

-----------------------------------------------------------------------------
(* Reading CSV text back (csv.reader, dialect excel): used to state what   *)
(* the text holds.  A blank line is a row of no cells; "" is one empty     *)
(* cell.                                                                   *)

RECURSIVE CsvParseFrom(_, _, _, _, _, _)
CsvParseFrom(toks, inQuote, started, cell, row, rows) ==
    IF toks = <<>> THEN
        IF started \/ cell # <<>> \/ row # <<>> THEN Append(rows, Append(row, cell))
        ELSE rows
    ELSE LET c == Head(toks) rest == Tail(toks) IN
        IF inQuote THEN
            IF c = Quote /\ rest # <<>> /\ Head(rest) = Quote
            THEN CsvParseFrom(Tail(rest), TRUE, TRUE, Append(cell, Quote), row, rows)
            ELSE IF c = Quote
            THEN CsvParseFrom(rest, FALSE, TRUE, cell, row, rows)
            ELSE CsvParseFrom(rest, TRUE, TRUE, Append(cell, c), row, rows)
        ELSE
            IF c = Quote THEN CsvParseFrom(rest, TRUE, TRUE, cell, row, rows)
            ELSE IF c = Comma
            THEN CsvParseFrom(rest, FALSE, FALSE, <<>>, Append(row, cell), rows)
            ELSE IF c = CR /\ rest # <<>> /\ Head(rest) = LF
            THEN CsvParseFrom(Tail(rest), FALSE, FALSE, <<>>, <<>>,
                    Append(rows, IF started \/ cell # <<>> \/ row # <<>>
                                 THEN Append(row, cell) ELSE <<>>))
            ELSE CsvParseFrom(rest, FALSE, TRUE, Append(cell, c), row, rows)

CsvParse(text) == CsvParseFrom(text, FALSE, FALSE, <<>>, <<>>, <<>>)

\* The union of the records' keys in first-occurrence order.
RECURSIVE UnionKeys(_, _)
UnionKeys(records, acc) ==
    IF records = <<>> THEN acc
    ELSE UnionKeys(Tail(records),
            acc \o SelectSeq(Keys(Head(records)), LAMBDA k : k \notin Range(acc)))

CsvDone == fnArg.fn = "records_to_csv" /\ fnRes # NoRes

\* C5: for a non-empty record list the header row of
\* _records_to_csv(records, max_cols) has at most max_cols columns.
C5_HeaderWithinMaxCols ==
    (CsvDone /\ fnArg.records # <<>>)
        => Len(CsvParse(fnRes.text)[1]) <= fnArg.max_cols


\* What the text of a non-empty record list is said to hold: the header
\* (the keys' union in first-occurrence order, cut to max_cols), then one
\* row per record, in order, each cell the record's value for the header's
\* key or empty when the record lacks it.
CsvRowsAsClaimed ==
    LET rows == CsvParse(fnRes.text)
        recs == fnArg.records
        hdr == FirstN(UnionKeys(recs, <<>>), fnArg.max_cols)
    IN  /\ Len(rows) = 1 + Len(recs)
        /\ rows[1] = [j \in 1..Len(hdr) |-> <<hdr[j]>>]
        /\ \A i \in 1..Len(recs) :
              rows[i + 1] = [j \in 1..Len(hdr) |->
                                IF Has(recs[i], hdr[j])
                                THEN CsvFieldText(Get(recs[i], hdr[j], Null))
                                ELSE <<>>]

StationACsv ==
    <<"name", Comma, "lat", CR, LF, "Station A", Comma, "33", ".", "5", CR, LF>>

\* C6: the text of a non-empty record list is the header (first-occurrence
\* union of the keys, truncated to max_cols) followed by one row per record
\* in input order, with empty cells for missing keys and keys outside the
\* header dropped; the one record {name: "Station A", lat: 33.5} gives
\* "name,lat\r\nStation A,33.5\r\n" under the default max_cols.
C6_CsvRowsAndHeader ==
    (CsvDone /\ fnArg.records # <<>>)
        => /\ CsvRowsAsClaimed
           /\ (fnArg.records = <<StationA>> /\ fnArg.max_cols = DefaultMaxCols)
                 => fnRes.text = StationACsv

\* The same statement for max_cols >= 1 only: it holds, which places the
\* divergence of C5 and C6 at max_cols = 0 alone.
CsvRowsAsClaimedForPositiveMaxCols ==
    (CsvDone /\ fnArg.records # <<>> /\ fnArg.max_cols >= 1)
        => /\ CsvRowsAsClaimed
           /\ Len(CsvParse(fnRes.text)[1]) <= fnArg.max_cols
           /\ (fnArg.records = <<StationA>> /\ fnArg.max_cols = DefaultMaxCols)
                 => fnRes.text = StationACsv

-----------------------------------------------------------------------------
(* SpecExtract: _extract_features and the two tools built on it, applied   *)
(* to payloads of every shape at each segment of resultsets.features.      *)

FeaturePool ==
    {Dict(<<<<"properties", Dict(StationA)>>>>),
     Dict(<<<<"properties", Dict(<<<<"name", Str(<<"B">>)>>>>)>>, <<"geometry", Null>>>>),
     Dict(<<<<"geometry", Null>>>>)}

WrongShapePool == {Null, Str(<<"x">>), Num(1)}

FeaturesValuePool ==
    WrongShapePool \cup {Dict(<<>>)} \cup {Lst(fs) : fs \in SeqsUpTo(FeaturePool, MaxFeatures)}

ResultsetsValuePool ==
    WrongShapePool \cup {Lst(<<>>), Dict(<<>>)}
    \cup {Dict(<<<<"features", f>>>>) : f \in FeaturesValuePool}
    \cup {Dict(<<<<"type", Str(<<"FeatureCollection">>)>>, <<"features", f>>>>)
            : f \in FeaturesValuePool}

PayloadPool ==
    WrongShapePool \cup {Lst(<<>>), Dict(<<>>), Dict(<<<<"raw", Str(<<"x">>)>>>>)}
    \cup {Dict(<<<<"resultsets", r>>>>) : r \in ResultsetsValuePool}

ExtractInputs ==
    [fn : {"extract_features", "search_get_records", "search_get_csv"},
     data : PayloadPool]

InitExtract == DispIdle /\ fnArg \in ExtractInputs /\ fnRes = NoRes

ApplyExtractFeatures ==
    /\ fnArg.fn = "extract_features"
    /\ fnRes = NoRes
    /\ fnRes' = Ok(extract_features(fnArg.data))
    /\ UNCHANGED <<fnArg, dispVars>>

ApplySearchGetRecords ==
    /\ fnArg.fn = "search_get_records"
    /\ fnRes = NoRes
    /\ fnRes' = search_get_records_body(fnArg.data)
    /\ UNCHANGED <<fnArg, dispVars>>

ApplySearchGetCsv ==
    /\ fnArg.fn = "search_get_csv"
    /\ fnRes = NoRes
    /\ fnRes' = search_get_csv_body(fnArg.data)
    /\ UNCHANGED <<fnArg, dispVars>>

NextExtract == ApplyExtractFeatures \/ ApplySearchGetRecords \/ ApplySearchGetCsv

SpecExtract == InitExtract /\ [][NextExtract]_vars

\* payload.resultsets.features exists and every segment has its shape.
HasFeaturesList(data) ==
    /\ IsDict(data)
    /\ Has(data.v, "resultsets")
    /\ IsDict(Get(data.v, "resultsets", Null))
    /\ Has(Get(data.v, "resultsets", Null).v, "features")
    /\ IsList(Get(Get(data.v, "resultsets", Null).v, "features", Null))

FeaturesOf(data) == Get(Get(data.v, "resultsets", Null).v, "features", Null)

NoDataRecords == Ok(TextContent(JsonText(Dict(<<<<"records", Lst(<<>>)>>>>), <<>>), FALSE))
NoDataCsv == Ok(TextContent(PlainText(<<>>), FALSE))

\* C7: _extract_features returns [] when resultsets.features is missing or
\* a segment has the wrong shape, and exactly the features list otherwise;
\* for such payloads the records and CSV tools return "no data", not an
\* error.
C7_ExtractFeaturesTotal ==
    /\ (fnArg.fn = "extract_features" /\ fnRes # NoRes)
          => fnRes = Ok(IF HasFeaturesList(fnArg.data)
                        THEN FeaturesOf(fnArg.data) ELSE Lst(<<>>))
    /\ (fnArg.fn = "search_get_records" /\ fnRes # NoRes /\ ~HasFeaturesList(fnArg.data))
          => fnRes = NoDataRecords
    /\ (fnArg.fn = "search_get_csv" /\ fnRes # NoRes /\ ~HasFeaturesList(fnArg.data))
          => fnRes = NoDataCsv

\* The same with "features" absent or a list (any other segment of any
\* shape): it holds, which places the divergence at a "features" value
\* that is present and is no list.
ExtractFeaturesUnlessFeaturesNotAList ==
    LET rs == IF IsDict(fnArg.data) THEN Get(fnArg.data.v, "resultsets", Dict(<<>>)) ELSE Null
        bad == IsDict(rs) /\ Has(rs.v, "features") /\ ~IsList(Get(rs.v, "features", Null))
    IN  (fnArg.fn \in {"extract_features", "search_get_records", "search_get_csv"} /\ ~bad)
            => C7_ExtractFeaturesTotal

-----------------------------------------------------------------------------
(* SpecNormalize: the normalization step of search_dataset applied to      *)
(* list payloads and to mappings with and without result, apiname and      *)
(* totalCount.                                                             *)

ItemA1 == Dict(<<<<"a", Num(1)>>>>)
NormItemPool == {ItemA1, Dict(<<<<"name", Str(<<"B">>)>>, <<"lat", Flt(33, 5)>>>>), Num(1)}
NormListPool == {Lst(xs) : xs \in SeqsUpTo(NormItemPool, MaxResults)}

\* A mapping: each of result, totalCount, apiname and name present or not.
OptionalPair(k, vals) == {<<>>} \cup {<<<<k, v>>>> : v \in vals}

NormDictPool ==
    {Dict(r \o t \o a \o n) :
        r \in OptionalPair("result", NormListPool),
        t \in OptionalPair("totalCount", {Num(5)}),
        a \in OptionalPair("apiname", {Str(<<"aed">>)}),
        n \in OptionalPair("name", {Str(<<"B">>)})}

NormalizeInputs == [fn : {"normalize"}, data : NormListPool \cup NormDictPool]

InitNormalize == DispIdle /\ fnArg \in NormalizeInputs /\ fnRes = NoRes

ApplyNormalize ==
    /\ fnArg.fn = "normalize"
    /\ fnRes = NoRes
    /\ fnRes' = normalize(fnArg.data)
    /\ UNCHANGED <<fnArg, dispVars>>

NextNormalize == ApplyNormalize

SpecNormalize == InitNormalize /\ [][NextNormalize]_vars

\* C8: a list payload gives (the list, its length); a mapping with `result`
\* gives items = that value; a mapping without `result` gives the one-item
\* list of the mapping itself when it has no `apiname`, the empty list when
\* it has one; for a mapping totalCount is its `totalCount` when present,
\* the number of items otherwise.
C8_NormalizeResultList ==
    (fnArg.fn = "normalize" /\ fnRes # NoRes) =>
        LET d == fnArg.data IN
        /\ fnRes.kind = "ok"
        /\ IsList(d) => fnRes.v = <<d, Num(Len(d.v))>>
        /\ (IsDict(d) /\ Has(d.v, "result")) => fnRes.v[1] = Get(d.v, "result", Null)
        /\ (IsDict(d) /\ ~Has(d.v, "result") /\ ~Has(d.v, "apiname"))
              => fnRes.v[1] = Lst(<<d>>)
        /\ (IsDict(d) /\ ~Has(d.v, "result") /\ Has(d.v, "apiname"))
              => fnRes.v[1] = Lst(<<>>)
        /\ (IsDict(d) /\ Has(d.v, "totalCount"))
              => fnRes.v[2] = Get(d.v, "totalCount", Null)
        /\ (IsDict(d) /\ ~Has(d.v, "totalCount"))
              => fnRes.v[2] = Num(Len(fnRes.v[1].v))

\* normalizeResultList({"result": [{"a": 1}], "totalCount": 5}) has been
\* computed and is (items = [{"a": 1}], totalCount = 5).
C8_Witness ==
    /\ fnArg = [fn |-> "normalize",
                data |-> Dict(<<<<"result", Lst(<<ItemA1>>)>>, <<"totalCount", Num(5)>>>>)]
    /\ fnRes = Ok(<<Lst(<<ItemA1>>), Num(5)>>)

-----------------------------------------------------------------------------
(* SpecProject: the projection step of search_dataset applied to lists of  *)
(* mappings and field lists.                                               *)

ProjKeyPool == {"a", "b"}
ProjFieldPool == {"a", "b", "z"}
ProjValuePool == {Num(1), Null}

ProjItemPool ==
    UNION {{Dict([i \in 1..Len(ks) |-> <<ks[i], vs[i]>>]) : vs \in [1..Len(ks) -> ProjValuePool]}
           : ks \in InjSeqsUpTo(ProjKeyPool, MaxKeys)}

ProjectInputs ==
    [fn : {"project"},
     items : SeqsUpTo(ProjItemPool, MaxItems),
     fields : SeqsUpTo(ProjFieldPool, MaxFields)]

InitProject == DispIdle /\ fnArg \in ProjectInputs /\ fnRes = NoRes

ApplyProject ==
    /\ fnArg.fn = "project"
    /\ fnRes = NoRes
    /\ fnRes' = project(Lst(fnArg.items), fnArg.fields)
    /\ UNCHANGED <<fnArg, dispVars>>

NextProject == ApplyProject

SpecProject == InitProject /\ [][NextProject]_vars

\* The pairs of a mapping, as a set.
Pairs(d) == Range(d.v)

\* C9: the projection has the length and order of the input; each output
\* item is the input item restricted to the requested fields it has, or
\* the input item itself when it has none of them; no item is dropped and
\* no key is added.
C9_ProjectFields ==
    (fnArg.fn = "project" /\ fnRes # NoRes) =>
        /\ fnRes.kind = "ok"
        /\ Len(fnRes.v.v) = Len(fnArg.items)
        /\ \A i \in 1..Len(fnArg.items) :
              LET item == fnArg.items[i]
                  out == fnRes.v.v[i]
                  wanted == {pr \in Pairs(item) : pr[1] \in Range(fnArg.fields)}
              IN  /\ IsDict(out)
                  /\ Len(out.v) = Cardinality(Pairs(out))
                  /\ Pairs(out) \subseteq Pairs(item)
                  /\ IF wanted = {} THEN out = item ELSE Pairs(out) = wanted

\* projectFields([{"a": 1, "b": 1}, {"b": 1}], ["a"]) has been computed:
\* the first item is cut to {"a": 1}, the second passes through unchanged.
C9_Witness ==
    /\ fnArg.fn = "project"
    /\ fnArg.items = <<Dict(<<<<"a", Num(1)>>, <<"b", Num(1)>>>>), Dict(<<<<"b", Num(1)>>>>)>>
    /\ fnArg.fields = <<"a">>
    /\ fnRes = Ok(Lst(<<ItemA1, Dict(<<<<"b", Num(1)>>>>)>>))

-----------------------------------------------------------------------------
(* SpecMunicipality: the filter of get_municipality_code applied to        *)
(* organization lists and queries over a two-letter alphabet in both       *)
(* cases, and to the two-city list.                                        *)

NameAlphabet == {"a", "A"}
OrgNamePool == (SeqsUpTo(NameAlphabet, MaxNameLen) \ {<<>>}) \cup {Fukuoka, Kitakyushu}
QueryPool == SeqsUpTo(NameAlphabet, MaxNameLen) \cup {Fukuoka}

MunicipalityInputs ==
    [fn : {"get_municipality_code"},
     q : QueryPool,
     orgs : SeqsUpTo({Org(n) : n \in OrgNamePool}, MaxOrgs)]

InitMunicipality == DispIdle /\ fnArg \in MunicipalityInputs /\ fnRes = NoRes

ApplyMunicipality ==
    /\ fnArg.fn = "get_municipality_code"
    /\ fnRes = NoRes
    /\ fnRes' = municipality_body(Str(fnArg.q), Lst(fnArg.orgs))
    /\ UNCHANGED <<fnArg, dispVars>>

NextMunicipality == ApplyMunicipality

SpecMunicipality == InitMunicipality /\ [][NextMunicipality]_vars

\* q occurs in name: some run of consecutive characters of name is q,
\* character for character (so case matters).
OccursIn(q, name) ==
    \E i \in 1..(Len(name) + 1) :
        /\ i + Len(q) - 1 <= Len(name)
        /\ \A k \in 1..Len(q) : name[i + k - 1] = q[k]

OrgName(o) == Get(o.v, "organ_name", Null).v

\* C10: get_municipality_code returns exactly the upstream entries whose
\* organ_name contains q as a case-sensitive substring, in upstream order,
\* each entry as upstream gave it.
C10_MunicipalityFilter ==
    (fnArg.fn = "get_municipality_code" /\ fnRes # NoRes) =>
        fnRes = Ok(<<TextContent(
                        JsonText(Lst(SelectSeq(fnArg.orgs,
                                               LAMBDA o : OccursIn(fnArg.q, OrgName(o)))),
                                 <<>>),
                        FALSE)>>)

\* The two-city list has been filtered by q = 福岡市: only the first entry
\* is returned.
C10_Witness ==
    /\ fnArg = [fn |-> "get_municipality_code", q |-> Fukuoka,
                orgs |-> <<Org(Fukuoka), Org(Kitakyushu)>>]
    /\ fnRes = Ok(<<TextContent(JsonText(Lst(<<Org(Fukuoka)>>), <<>>), FALSE)>>)

-----------------------------------------------------------------------------
(* Claims about the servers.                                               *)

\* The value is one result envelope: the one-block list call_tool returns,
\* or the one block a stdio handler returns.
IsEnvelope(server, v) ==
    IF server = "sse" THEN Len(v) = 1 /\ v[1].type = "text" ELSE v.type = "text"

\* The invocation returned an error envelope; its message.
IsErrorEnvelope(d) ==
    /\ d.outcome.kind = "ok"
    /\ d.call.server = "sse"
    /\ Len(d.outcome.v) = 1
    /\ d.outcome.v[1].isError
    /\ d.outcome.v[1].text.t = "plain"
    /\ d.outcome.v[1].text.tail # <<>>
    /\ Head(d.outcome.v[1].text.tail) = "Error: "

ErrorMessage(d) == Tail(d.outcome.v[1].text.tail)

\* C1: every invocation, whatever the tool name, the arguments and the
\* upstream's answer, ends by returning one result envelope; none ends by
\* raising.
C1_AlwaysOneEnvelope ==
    last # NoCall
        => /\ last.outcome.kind = "ok"
           /\ IsEnvelope(last.call.server, last.outcome.v)

\* The same for call_tool alone: it holds, which places the divergence of
\* C1 in the stdio handlers.
CallToolAlwaysReturnsOneEnvelope ==
    (last # NoCall /\ last.call.server = "sse")
        => /\ last.outcome.kind = "ok"
           /\ IsEnvelope("sse", last.outcome.v)

\* The tools the claims call search tools.
SearchTools ==
    {"search_dataset", "search_get", "search_post", "search_get_records",
     "search_get_csv", "search_get_geojson"}

\* C2: a search tool whose upstream call returns HTTP 500 yields an error
\* envelope whose message includes 500; the server goes on serving, and a
\* later invocation returns what the same invocation returned before the
\* failure.
C2_Serves500AndGoesOn ==
    /\ (last # NoCall /\ last.call.name \in SearchTools /\ Got500(last.resp))
          => (IsErrorEnvelope(last) /\ ToString(500) \in Range(ErrorMessage(last)))
    /\ (failed500 /\ pc = "idle") => ENABLED NextServe
    /\ (failed500 /\ first # NoCall /\ last # NoCall
        /\ last.call = first.call /\ last.resp = first.resp)
          => last.outcome = first.outcome

\* The same with the first part for call_tool alone: it holds, which
\* places the divergence of C2 in the stdio handlers' raise (that of C1).
CallToolServes500AndGoesOn ==
    /\ (last # NoCall /\ last.call.server = "sse" /\ last.call.name \in SearchTools
        /\ Got500(last.resp))
          => (IsErrorEnvelope(last) /\ ToString(500) \in Range(ErrorMessage(last)))
    /\ (failed500 /\ pc = "idle") => ENABLED NextServe
    /\ (failed500 /\ first # NoCall /\ last # NoCall
        /\ last.call = first.call /\ last.resp = first.resp)
          => last.outcome = first.outcome

\* The required arguments of the input schemas (src/api/index.py:57, 76,
\* 87, 113), each declared a string.
RequiredArgs(name) ==
    CASE name \in {"get_dataset_config", "get_organization", "search_dataset"} -> {"apiname"}
      [] name = "get_municipality_code" -> {"q"}
      [] OTHER -> {}

BadArgs(name, args) ==
    {k \in RequiredArgs(name) : ~Has(args, k) \/ Get(args, k, Null).t # "str"}

\* C3: call_tool for a registered tool whose required argument is missing
\* or no string returns an error envelope that names the argument, and
\* issues no upstream request.
C3_InvalidArgumentsRejected ==
    (last # NoCall /\ last.call.server = "sse" /\ last.call.name \in ToolNames
     /\ BadArgs(last.call.name, last.call.args) # {})
        => /\ IsErrorEnvelope(last)
           /\ \E k \in BadArgs(last.call.name, last.call.args) : k \in Range(ErrorMessage(last))
           /\ last.nreq = 0

\* The one case in which the code does so: search_dataset without apiname,
\* where args_copy.pop("apiname") raises KeyError('apiname').
SearchDatasetWithoutApinameRejected ==
    (last # NoCall /\ last.call.server = "sse" /\ last.call.name = "search_dataset"
     /\ ~Has(last.call.args, "apiname"))
        => /\ IsErrorEnvelope(last)
           /\ "apiname" \in Range(ErrorMessage(last))
           /\ last.nreq = 0

\* C4: call_tool for a name that is not registered returns an error
\* envelope (error flag set, one text block beginning "Error: ") whose
\* message contains the name, and issues no upstream request.
C4_UnknownToolRejected ==
    (last # NoCall /\ last.call.server = "sse" /\ last.call.name \notin ToolNames)
        => /\ IsErrorEnvelope(last)
           /\ last.call.name \in Range(ErrorMessage(last))
           /\ last.nreq = 0
           /\ last.resp = NoResp

\* call_tool("search_get_csv", {"apiname": "aed"}), a name only the stdio
\* server registers, has returned its error envelope.
C4_Witness ==
    /\ last # NoCall
    /\ last.call = Call("sse", "search_get_csv", <<<<"apiname", Aed>>>>)
    /\ last.outcome =
          Ok(<<TextContent(PlainText(<<"Error: ", "Unknown tool: ", "search_get_csv">>), TRUE)>>)

-----------------------------------------------------------------------------
(* SpecUpstream: _http_get and _http_post (src/BODIK-API-mcp.py:229-252)   *)
(* on upstream answers of every status around the 2xx range.               *)

StatusPool == {199, 200, 201, 204, 299, 300, 404, 500}

UpstreamBodyPool ==
    {JsonBody(ResultPayload), JsonBody(OrgsPayload), JsonBody(Lst(<<>>)),
     TextBody(<<"<html>">>), TextBody(<<>>)}

UpstreamPathPool == {<<"/organization">>, <<"/", "aed">>}

UpstreamInputs ==
    [fn : {"_http_get", "_http_post"},
     path : UpstreamPathPool,
     resp : {Http(s, b) : s \in StatusPool, b \in UpstreamBodyPool} \cup {Timeout}]

InitUpstream == DispIdle /\ fnArg \in UpstreamInputs /\ fnRes = NoRes

\* _http_get(session, path): url = BASE_URL + path, then the answer.
ApplyHttpGet ==
    /\ fnArg.fn = "_http_get"
    /\ fnRes = NoRes
    /\ fnRes' = HttpGetOrPost(Request("GET", <<BaseUrl>> \o fnArg.path, <<>>), fnArg.resp)
    /\ UNCHANGED <<fnArg, dispVars>>

\* _http_post(session, path, body).
ApplyHttpPost ==
    /\ fnArg.fn = "_http_post"
    /\ fnRes = NoRes
    /\ fnRes' = HttpGetOrPost(Request("POST", <<BaseUrl>> \o fnArg.path, <<>>), fnArg.resp)
    /\ UNCHANGED <<fnArg, dispVars>>

NextUpstream == ApplyHttpGet \/ ApplyHttpPost

SpecUpstream == InitUpstream /\ [][NextUpstream]_vars

UpstreamDone ==
    fnArg.fn \in {"_http_get", "_http_post"} /\ fnRes # NoRes /\ fnArg.resp.kind = "http"

\* What decoding makes of a body: its JSON value, or {"raw": text}.
Decoded(body) == IF body.json THEN body.data ELSE Dict(<<<<"raw", Str(body.text)>>>>)

\* C11: the upstream client (get and post) fails exactly when the status is
\* outside 200..299, with an error that carries the status code; for every
\* status inside 200..299 it returns the decoded payload.
C11_FailsExactlyOutside2xx ==
    UpstreamDone
        => LET s == fnArg.resp.status IN
           /\ (fnRes.kind = "raise") <=> (s \notin 200..299)
           /\ (fnRes.kind = "raise") => ToString(s) \in Range(fnRes.msg)
           /\ (fnRes.kind = "ok") => fnRes.v = Decoded(fnArg.resp.body)

\* What the code does: the same with the one status 200 in place of the
\* range 200..299 (lines 234 and 247 test `resp.status != 200`).
UpstreamFailsExactlyWhenNot200 ==
    UpstreamDone
        => LET s == fnArg.resp.status IN
           /\ (fnRes.kind = "raise") <=> (s # 200)
           /\ (fnRes.kind = "raise") => ToString(s) \in Range(fnRes.msg)
           /\ (fnRes.kind = "ok") => fnRes.v = Decoded(fnArg.resp.body)

-----------------------------------------------------------------------------
(* Claims about upstream answers that are not JSON.                        *)

\* The completed invocation got a 2xx answer whose body is not JSON.
GotNonJson2xx(d) ==
    /\ d # NoCall
    /\ d.resp.kind = "http"
    /\ d.resp.status \in 200..299
    /\ ~d.resp.body.json

\* C12: for every tool that calls upstream, a 2xx answer whose body is not
\* valid JSON is no failure: the invocation ends in a success envelope,
\* never in an error envelope (nor in a raise).
C12_NonJson2xxIsSuccess ==
    GotNonJson2xx(last)
        => /\ last.outcome.kind = "ok"
           /\ IsEnvelope(last.call.server, last.outcome.v)
           /\ ~IsErrorEnvelope(last)

\* The handlers of the stdio server do so for status 200: _http_get yields
\* {"raw": text}, which the pass-through tools dump and the extractors take
\* for a payload without features.
StdioNonJson200IsSuccess ==
    (GotNonJson2xx(last) /\ last.call.server = "stdio" /\ last.resp.status = 200)
        => /\ last.outcome.kind = "ok"
           /\ IsEnvelope("stdio", last.outcome.v)
           /\ last.call.name \in {"list_organizations", "list_all_organizations",
                                  "get_config", "search_get", "search_post"}
                 => last.outcome.v.text =
                        JsonText(Dict(<<<<"raw", Str(last.resp.body.text)>>>>), <<>>)

\* call_tool never does: resp.json() raises on such a body (lines 126, 137,
\* 145, 151, 165, 180) and the except clause returns the error envelope.
CallToolNonJson2xxIsError ==
    (GotNonJson2xx(last) /\ last.call.server = "sse") => IsErrorEnvelope(last)

-----------------------------------------------------------------------------
(* Claims about the HTTP client of an invocation.                          *)

\* C13: an invocation holds one HTTP client of its own while it runs, and
\* that client is released on every exit path: whenever no invocation is
\* running, whatever invocations have completed and however they ended, no
\* client is open.
C13_ClientsReleased ==
    /\ pc = "idle" => clients = 0
    /\ pc = "awaiting" => clients = 1

\* tool_search_get_csv has ended by raising on a timeout, having issued its
\* request with a session of its own: no session is left open.
C13_Witness ==
    /\ pc = "idle"
    /\ clients = 0
    /\ last # NoCall
    /\ last.call.name = "search_get_csv"
    /\ last.resp = Timeout
    /\ last.outcome.kind = "raise"
    /\ last.nreq = 1

-----------------------------------------------------------------------------
(* Claims about the number of upstream requests.                           *)

\* The upstream request of the completed invocation failed: it timed out,
\* or was answered with a status outside 200..299.
RequestFailed(d) ==
    \/ d.resp.kind = "timeout"
    \/ d.resp.kind = "http" /\ d.resp.status \notin 200..299

\* An invocation issues at most one request and none again after a failure;
\* it ends only once its request has been answered or has failed, and
\* leaves no request behind.
OneRequestThenResult ==
    /\ sent <= 1
    /\ pc = "idle" => (sent = 0 /\ cur = NoCall)
    /\ last # NoCall
          => /\ last.nreq <= 1
             /\ last.nreq = 1 <=> last.resp # NoResp
             /\ RequestFailed(last) => last.nreq = 1

\* C14: every invocation issues at most one upstream request; a request
\* that fails or times out is not issued again, the failure is returned as
\* the invocation's error envelope, and the result comes only after the
\* request has completed or failed, with nothing left running.
C14_OneRequestNoRetry ==
    /\ OneRequestThenResult
    /\ (last # NoCall /\ RequestFailed(last)) => IsErrorEnvelope(last)

\* The counting part of C14 holds for both servers.
AtMostOneRequestNoRetry ==
    /\ OneRequestThenResult
    /\ (last # NoCall /\ RequestFailed(last))
          => (IsErrorEnvelope(last) \/ last.outcome.kind = "raise")

\* All of C14 holds for call_tool: the divergence is the stdio handlers'
\* raise (that of C1).
CallToolOneRequestNoRetry ==
    /\ OneRequestThenResult
    /\ (last # NoCall /\ last.call.server = "sse" /\ RequestFailed(last))
          => IsErrorEnvelope(last)

-----------------------------------------------------------------------------
(* SpecSearchParams: the request of search_dataset (src/api/index.py:      *)
(* 167-178) on argument objects with and without apiname, fields,          *)
(* maxResults and other parameters, null values included.                  *)

ArgKeyPool == {"apiname", "fields", "maxResults", "municipalityName", "name"}

ArgValuePool(k) ==
    CASE k = "apiname" -> {Aed}
      [] k = "fields" -> {Lst(<<Str(<<"name">>)>>)}
      [] k = "maxResults" -> {Num(5), Null}
      [] k = "municipalityName" -> {Str(Fukuoka), Null}
      [] OTHER -> {Str(<<"Station A">>)}

\* Argument objects: dicts, so no key twice.
ArgsPool ==
    UNION {{[i \in 1..Len(ks) |-> <<ks[i], vs[i]>>] :
                vs \in {f \in [1..Len(ks) -> UNION {ArgValuePool(k) : k \in ArgKeyPool}] :
                            \A i \in 1..Len(ks) : f[i] \in ArgValuePool(ks[i])}} :
           ks \in InjSeqsUpTo(ArgKeyPool, MaxArgs)}

InitSearchParams ==
    /\ DispIdle
    /\ fnArg \in [fn : {"search_dataset"}, args : ArgsPool]
    /\ fnRes = NoRes

\* call_tool("search_dataset", arguments) up to `await client.get(url,
\* params=params)`: the request, or the KeyError of line 169.
ApplySearchParams ==
    /\ fnArg.fn = "search_dataset"
    /\ fnRes = NoRes
    /\ fnRes' = CallToolStart("search_dataset", fnArg.args)
    /\ UNCHANGED <<fnArg, dispVars>>

NextSearchParams == ApplySearchParams

SpecSearchParams == InitSearchParams /\ [][NextSearchParams]_vars

\* The query the claim describes, as a set of <<key, value>> pairs.
ClaimedQuery(args) ==
    {kv \in Range(args) : kv[1] \notin {"apiname", "fields"} /\ kv[2] # Null}
    \cup (IF \E kv \in Range(args) : kv[1] = "maxResults" THEN {}
          ELSE {<<"maxResults", Num(10)>>})

\* C16: the query search_dataset sends is the caller's arguments other than
\* apiname and fields with the null-valued ones removed, plus maxResults=10
\* when the caller gave no maxResults; apiname and fields are never in it
\* and a maxResults the caller gave is in it unchanged.
C16_SearchDatasetQuery ==
    (fnArg.fn = "search_dataset" /\ fnRes # NoRes /\ fnRes.kind = "request")
        => LET q == fnRes.params
               args == fnArg.args
           IN  /\ Range(q) = ClaimedQuery(args)
               /\ Len(q) = Cardinality(ClaimedQuery(args))
               /\ \A kv \in Range(q) : kv[1] \notin {"apiname", "fields"} /\ kv[2] # Null
               /\ \A kv \in Range(args) :
                     (kv[1] = "maxResults" /\ kv[2] # Null) => kv \in Range(q)
               /\ (\A kv \in Range(args) : kv[1] # "maxResults")
                     => <<"maxResults", Num(10)>> \in Range(q)

\* search_dataset({"apiname": "aed", "fields": ["name"], "municipalityName":
\* None}) has sent the query {"maxResults": 10}.
C16_Witness ==
    /\ fnArg.fn = "search_dataset"
    /\ fnArg.args = <<<<"apiname", Aed>>, <<"fields", Lst(<<Str(<<"name">>)>>)>>,
                      <<"municipalityName", Null>>>>
    /\ fnRes # NoRes
    /\ fnRes.kind = "request"
    /\ fnRes.params = <<<<"maxResults", Num(10)>>>>

-----------------------------------------------------------------------------
(* SpecConcurrent: invocations of both servers in progress side by side,   *)
(* each suspended at its await while others begin and end.  What they      *)
(* could share is the caller's argument object (handed by reference) and   *)
(* the count of open clients; everything else an invocation touches is a   *)
(* local variable or an object it made itself (args_copy, resp.json()).    *)

\* A variant of the effect below in which search_dataset pops apiname and
\* fields from the caller's dict instead of from a copy of it.
ArgumentsAfter_popping_in_place(name, args) ==
    IF name = "search_dataset" THEN Without(Without(args, "apiname"), "fields") ELSE args

\* What call_tool leaves of the caller's dict: it reads it with .get (lines
\* 134, 148, 162) or copies it (`args_copy = dict(arguments)`, line 168)
\* and pops from the copy, so the dict is as it was.
ArgumentsAfter(name, args) == args

\* An invocation suspended at its await: its locals (the arguments as it
\* read them before the await, its request) and whether another invocation
\* was suspended when it began.
Suspended(server, name, obj, args, req, over) ==
    [pc |-> "awaiting", server |-> server, name |-> name, obj |-> obj,
     args |-> args, req |-> req, over |-> over]

\* An invocation that has ended: how (outcome), on which answer, and
\* whether another invocation was suspended when it ended.
Ended(server, name, obj, resp, outcome, over, with) ==
    [pc |-> "done", server |-> server, name |-> name, obj |-> obj,
     resp |-> resp, outcome |-> outcome, over |-> over, with |-> with]

AwaitingBut(s) == \E t \in Slots \ {s} : inv[t].pc = "awaiting"

\* call_tool(name, arguments) begins in slot s with the caller's object obj
\* and runs to its await (or to its end, when it issues no request).
ConcCallTool(s, name, obj) ==
    /\ inv[s].pc = "idle"
    /\ LET args == arguments[obj]
           st == CallToolStart(name, args)
       IN  /\ arguments' = [arguments EXCEPT ![obj] = ArgumentsAfter(name, args)]
           /\ IF st.kind = "request"
              THEN /\ inv' = [inv EXCEPT ![s] =
                                 Suspended("sse", name, obj, args, st, AwaitingBut(s))]
                   /\ clients' = clients + 1
              ELSE /\ inv' = [inv EXCEPT ![s] =
                                 Ended("sse", name, obj, NoResp, Caught(st),
                                       AwaitingBut(s), AwaitingBut(s))]
                   /\ clients' = AsyncWithExit(clients + 1, Caught(st))
    /\ UNCHANGED <<pc, cur, sent, last, failed500, first, fnVars>>

\* A stdio handler begins in slot s with the apiname of the caller's object
\* (a str, passed by value) and runs to its await in _http_get.
ConcRunHandler(s, name, obj) ==
    /\ inv[s].pc = "idle"
    /\ Has(arguments[obj], "apiname")
    /\ LET args == arguments[obj]
           st == HandlerStart(name, Get(args, "apiname", Null).v)
       IN  /\ st.kind = "request"
           /\ inv' = [inv EXCEPT ![s] =
                         Suspended("stdio", name, obj, args, st, AwaitingBut(s))]
    /\ clients' = clients + 1
    /\ UNCHANGED <<pc, cur, sent, last, failed500, first, arguments, fnVars>>

\* The invocation of slot s gets its answer and runs to its end.
ConcReturn(s, resp) ==
    /\ inv[s].pc = "awaiting"
    /\ LET i == inv[s]
           outcome == IF i.server = "sse"
                      THEN CallToolResume(i.name, i.args, i.req, resp)
                      ELSE HandlerResume(i.name, i.req, resp)
       IN  /\ inv' = [inv EXCEPT ![s] =
                         Ended(i.server, i.name, i.obj, resp, outcome, i.over, AwaitingBut(s))]
           /\ clients' = AsyncWithExit(clients, outcome)
    /\ UNCHANGED <<pc, cur, sent, last, failed500, first, arguments, fnVars>>

ConcSseNamePool == {"search_dataset", "get_dataset_config", "get_municipality_code"}
ConcHandlerNamePool == {"search_get_csv"}
ConcResponsePool ==
    {Http(200, JsonBody(ResultPayload)), Http(200, JsonBody(ConfigPayload)),
     Http(200, JsonBody(OrgsPayload)), Http(500, TextBody(<<"boom">>))}

ObjIds == 1..Len(CallerArguments)

NextConcurrent ==
    \/ \E s \in Slots, name \in ConcSseNamePool, obj \in ObjIds : ConcCallTool(s, name, obj)
    \/ \E s \in Slots, name \in ConcHandlerNamePool, obj \in ObjIds : ConcRunHandler(s, name, obj)
    \/ \E s \in Slots, resp \in ConcResponsePool : ConcReturn(s, resp)

SpecConcurrent == Init /\ [][NextConcurrent]_vars

\* What an invocation returns (or raises) when it runs alone, from its
\* entry to its end, on the caller's arguments and the upstream's answer.
Alone(server, name, args, resp) ==
    IF server = "sse"
    THEN LET st == CallToolStart(name, args)
         IN  IF st.kind = "request" THEN CallToolResume(name, args, st, resp)
             ELSE Caught(st)
    ELSE LET st == HandlerStart(name, Get(args, "apiname", Null).v)
         IN  IF st.kind = "request" THEN HandlerResume(name, st, resp) ELSE st

\* C15: invocations in progress side by side are independent: however they
\* interleave at their awaits, each ends as it would have ended alone on
\* the same arguments and the same upstream answer, and none alters the
\* caller's argument object (search_dataset pops from a copy; the fields and
\* mapping get_dataset_config removes are removed from its own decoded
\* answer).
C15_ConcurrentIndependent ==
    /\ arguments = CallerArguments
    /\ \A s \in Slots :
          inv[s].pc = "done"
              => inv[s].outcome =
                     Alone(inv[s].server, inv[s].name, CallerArguments[inv[s].obj], inv[s].resp)

\* search_dataset began on the caller's first object; while it was suspended
\* get_dataset_config began on the same object, got its answer and ended
\* with fields and mapping removed; then search_dataset got its answer and
\* ended with its projection.
C15_Witness ==
    /\ inv[1].pc = "done" /\ inv[2].pc = "done"
    /\ inv[1].name = "search_dataset" /\ inv[2].name = "get_dataset_config"
    /\ inv[1].obj = 1 /\ inv[2].obj = 1
    /\ inv[2].over /\ inv[2].with /\ ~inv[1].over /\ ~inv[1].with
    /\ inv[2].resp = Http(200, JsonBody(ConfigPayload))
    /\ inv[2].outcome = Ok(<<TextContent(JsonText(Dict(<<<<"apiname", Aed>>>>), <<>>), FALSE)>>)
    /\ inv[1].resp = Http(200, JsonBody(ResultPayload))
    /\ inv[1].outcome =
          Ok(<<TextContent(
                 JsonText(Dict(<<<<"totalCount", Num(5)>>,
                                 <<"result", Lst(<<Dict(<<<<"name", Str(<<"Station A">>)>>>>)>>)>>>>),
                          <<>>), FALSE)>>)

\* Side by side too, the open clients are those of the suspended
\* invocations and no others.
ConcurrentClientsReleased ==
    clients = Cardinality({s \in Slots : inv[s].pc = "awaiting"})

=============================================================================
